---- MODULE Spec2Model ----
(***************************************************************************)
(* Model of lib/core/MantraData.js: the resolver that turns a dot-joined   *)
(* route string into schema, parents, id, action, endpoint and alias.      *)
(*                                                                         *)
(* A JavaScript string is a sequence of one-character strings, so that     *)
(* split, concat and the regular-expression replace of _trimPath act on    *)
(* characters as they do in the source.  The characters used are lowercase *)
(* letters, digits and the dot; a segment never holds a character that is  *)
(* special in a regular expression.                                        *)
(***************************************************************************)
EXTENDS Integers, Sequences, FiniteSets, TLC

(* ------------------------------ strings ------------------------------ *)
Empty == << >>
Dot == "."
Slash == "/"
Hyphen == "-"
users == <<"u", "s", "e", "r", "s">>
posts == <<"p", "o", "s", "t", "s">>
widgets == <<"w", "i", "d", "g", "e", "t", "s">>
create == <<"c", "r", "e", "a", "t", "e">>
update == <<"u", "p", "d", "a", "t", "e">>
five == <<"5">>
seven == <<"7">>
superusers == <<"s", "u", "p", "e", "r", "u", "s", "e", "r", "s">>
Widget == <<"W", "i", "d", "g", "e", "t">>

Digits == {"0", "1", "2", "3", "4", "5", "6", "7", "8", "9"}

(* ------------------------------ bounds ------------------------------- *)
MaxSegs == 4
Ctxs == {1, 2}

(* The segments an input path is built from. *)
Segs == {users, posts, widgets, create, five, seven, superusers, Empty}

(* String.prototype.split('.') *)
RECURSIVE SplitFrom(_, _, _)
SplitFrom(s, i, cur) ==
    IF i > Len(s) THEN <<cur>>
    ELSE IF s[i] = Dot THEN <<cur>> \o SplitFrom(s, i + 1, Empty)
    ELSE SplitFrom(s, i + 1, Append(cur, s[i]))

split(s) == SplitFrom(s, 1, Empty)

(* Array.prototype.join('.') *)
RECURSIVE join(_)
join(segs) ==
    IF segs = << >> THEN Empty
    ELSE IF Len(segs) = 1 THEN segs[1]
    ELSE segs[1] \o <<Dot>> \o join(Tail(segs))

(* String.prototype.replace with a one-character global pattern *)
replaceAll(s, from, to) == [i \in 1..Len(s) |-> IF s[i] = from THEN to ELSE s[i]]

(* Whether the literal word occurs in s at position i. *)
MatchesAt(s, word, i) ==
    /\ i + Len(word) - 1 <= Len(s)
    /\ \A k \in 1..Len(word) : s[i + k - 1] = word[k]

(* s.replace(new RegExp(`(${word}).?`, 'g'), ''): scanning from the left,  *)
(* every occurrence of word is removed together with the one character     *)
(* that follows it, if there is one; the search resumes after the match.   *)
(* With an empty word every position matches and takes one character.      *)
RECURSIVE RemoveFrom(_, _, _)
RemoveFrom(s, word, i) ==
    IF i > Len(s) THEN Empty
    ELSE IF MatchesAt(s, word, i) THEN RemoveFrom(s, word, i + Len(word) + 1)
    ELSE <<s[i]>> \o RemoveFrom(s, word, i + 1)

(* Number(value) is not NaN, for a string of lowercase letters and digits: *)
(* the empty string (0), decimal digits, digits with an exponent part, and *)
(* the prefixes 0x, 0b and 0o followed by one or more digits of the radix. *)
HexDigits == Digits \cup {"a", "b", "c", "d", "e", "f"}
OctalDigits == {"0", "1", "2", "3", "4", "5", "6", "7"}
BinaryDigits == {"0", "1"}

AllIn(s, D) == \A i \in 1..Len(s) : s[i] \in D

AllDigits(s) == AllIn(s, Digits)

RadixLiteral(s, letter, D) ==
    /\ Len(s) >= 3
    /\ s[1] = "0" /\ s[2] = letter
    /\ AllIn(SubSeq(s, 3, Len(s)), D)

NumberIsNotNaN(s) ==
    \/ AllDigits(s)
    \/ \E k \in 2..(Len(s) - 1) :
          /\ s[k] = "e"
          /\ AllDigits(SubSeq(s, 1, k - 1))
          /\ AllDigits(SubSeq(s, k + 1, Len(s)))
    \/ RadixLiteral(s, "x", HexDigits)
    \/ RadixLiteral(s, "o", OctalDigits)
    \/ RadixLiteral(s, "b", BinaryDigits)

(* --------------------------- schema registry ------------------------- *)
(* A schema node is named by its index in nodes: two references are the    *)
(* same object exactly when the indices are equal.  0 stands for null.     *)
NoActions == [k \in {} |-> [ref |-> "", name |-> Empty, needFetch |-> FALSE]]

NoFields == << >>

(* new MantraSchema(payload): name, fields, actions and model are taken    *)
(* from the payload, anything else in it is dropped; the object has no     *)
(* relationships.  model is "undefined", "null" or "object"; modelName is  *)
(* model.name, Empty when the model has none.                              *)
MantraSchema(payload) ==
    [name |-> payload.name, fields |-> payload.fields,
     hasRelationships |-> FALSE, relationships |-> << >>,
     hasActions |-> payload.hasActions, actions |-> payload.actions,
     model |-> payload.model, modelName |-> payload.modelName]

(* A schema of the registry: the entity's MantraSchema with the ordered    *)
(* child schema nodes the registry's owner put on it.                      *)
SchemaNode(name, hasRel, rels, hasActions, actions, model, modelName) ==
    [MantraSchema([name |-> name, fields |-> NoFields, hasActions |-> hasActions,
                   actions |-> actions, model |-> model, modelName |-> modelName])
        EXCEPT !.hasRelationships = hasRel, !.relationships = rels]

(* users has the relationships posts and superusers, posts has a           *)
(* relationship named "5" and declares actions.create, widgets has a model *)
ScenarioRegistry ==
    [keys |-> (users :> 1) @@ (widgets :> 3),
     nodes |-> <<
        SchemaNode(users, TRUE, <<2, 5>>, FALSE, NoActions, "undefined", Empty),
        SchemaNode(posts, TRUE, <<4>>, TRUE,
                   (create :> [ref |-> "schema", name |-> create, needFetch |-> TRUE]),
                   "undefined", Empty),
        SchemaNode(widgets, FALSE, << >>, TRUE, NoActions, "object", Widget),
        SchemaNode(five, FALSE, << >>, FALSE, NoActions, "object", Empty),
        SchemaNode(superusers, TRUE, << >>, FALSE, NoActions, "undefined", Empty) >>]

(* posts is its own relationship: a post nests posts *)
RecursiveRegistry ==
    [keys |-> (users :> 1) @@ (posts :> 2),
     nodes |-> <<
        SchemaNode(users, TRUE, <<2>>, FALSE, NoActions, "undefined", Empty),
        SchemaNode(posts, TRUE, <<2>>, TRUE, NoActions, "object", Empty) >>]

(* every schema is a MantraSchema as its constructor leaves it: the        *)
(* relationships of the users payload are dropped, the model of posts is   *)
(* null                                                                    *)
ClassRegistry ==
    [keys |-> (users :> 1) @@ (posts :> 2) @@ (widgets :> 3),
     nodes |-> <<
        MantraSchema([name |-> users, fields |-> NoFields, hasActions |-> FALSE,
                      actions |-> NoActions, model |-> "undefined",
                      modelName |-> Empty, relationships |-> <<2>>]),
        MantraSchema([name |-> posts, fields |-> NoFields, hasActions |-> TRUE,
                      actions |-> (create :> [ref |-> "schema", name |-> create,
                                              needFetch |-> TRUE]),
                      model |-> "null", modelName |-> Empty]),
        MantraSchema([name |-> widgets, fields |-> NoFields, hasActions |-> FALSE,
                      actions |-> NoActions, model |-> "object",
                      modelName |-> Widget]) >>]

Registries == {ScenarioRegistry, RecursiveRegistry, ClassRegistry}

(* schemas   the registry MantraPlugin.getSchemasModule() returns          *)
(* input     per context, the path given to the constructor                *)
(* baseClass per context, the baseClass given to the constructor           *)
(* data      per context, the fields of the MantraData instance            *)
(* pc        per context, where its caller is in the sequence of calls     *)
(* arrPath   per context, the segments setRecord's loop has still to visit *)
(* calls     per context, the methods called so far, in order              *)
(* thrown    per context, the error the last call threw, NoError if none   *)
(* returned  per context, whether isValid returned true                    *)
VARIABLES schemas, input, baseClass, data, pc, arrPath, calls, thrown, returned

vars == <<schemas, input, baseClass, data, pc, arrPath, calls, thrown, returned>>

getSchemasModule == schemas

SchemaAt(n) == getSchemasModule.nodes[n]

(* ----------------------------- MantraData ---------------------------- *)
NoError == [type |-> "", message |-> "", arg |-> Empty]
Ok(t) == [this |-> t, thrown |-> NoError]
Throw(t, e) == [this |-> t, thrown |-> e]

SchemaNotFound(name) ==
    [type |-> "Error", message |-> "The ${name} schema was not found", arg |-> name]
NotResolved ==
    [type |-> "Error", message |-> "Configuration path was not completely resolved",
     arg |-> Empty]
(* calling callee, which is no function *)
TypeErrorNotAFunction(callee) ==
    [type |-> "TypeError", message |-> "${callee} is not a function",
     arg |-> <<callee>>]

(* reading property prop of value, which is "undefined" or "null" *)
TypeErrorReading(value, prop) ==
    [type |-> "TypeError",
     message |-> "Cannot read properties of ${value} (reading '${prop}')",
     arg |-> <<value, prop>>]

DEFAULT_ACTIONS ==
    [create |-> [ref |-> "default", name |-> create, needFetch |-> FALSE],
     update |-> [ref |-> "default", name |-> update, needFetch |-> TRUE]]

NoAction == [ref |-> "", name |-> Empty, needFetch |-> FALSE]
NoComponent == [bound |-> FALSE, model |-> "undefined", modelName |-> Empty]

(* the own keys of the BASE_CLASSES object literal *)
BASE_CLASSES == {"MantraComponent", "MantraForm"}

(* the keys the literal inherits from Object.prototype *)
ObjectPrototype ==
    {"constructor", "hasOwnProperty", "isPrototypeOf", "propertyIsEnumerable",
     "toLocaleString", "toString", "valueOf", "__proto__", "__defineGetter__",
     "__defineSetter__", "__lookupGetter__", "__lookupSetter__"}

(* what a caller may pass as baseClass *)
BaseClassArgs == BASE_CLASSES \cup {"undefined", "toString"}

(* this.BASE_CLASSES[baseClass], a plain property read: the class under an *)
(* own key, the inherited member under a key of Object.prototype, and      *)
(* undefined for any other key.  A class or member is named by its key.    *)
_getBaseClass(bc) ==
    IF bc \in BASE_CLASSES \cup ObjectPrototype THEN bc ELSE "undefined"

(* the fields of a context the caller has not constructed yet *)
NoObject ==
    [path |-> Empty, component |-> NoComponent, parents |-> << >>, name |-> Empty,
     schema |-> 0, id |-> Empty, action |-> NoAction, endpoint |-> Empty,
     _path |-> Empty, alias |-> Empty, _baseClass |-> "undefined"]

(* mutant: the parents array of the first instance is reused by later ones *)
constructor_SharedParents(path, bc) ==
    [path |-> Empty, component |-> NoComponent, parents |-> data[1].parents,
     name |-> Empty, schema |-> 0, id |-> Empty, action |-> NoAction,
     endpoint |-> Empty, _path |-> path, alias |-> Empty,
     _baseClass |-> _getBaseClass(bc)]

_setBaseClass(t, bc) == [t EXCEPT !._baseClass = _getBaseClass(bc)]

constructor(path, bc) ==
    _setBaseClass(
        [path |-> Empty, component |-> NoComponent, parents |-> << >>, name |-> Empty,
         schema |-> 0, id |-> Empty, action |-> NoAction, endpoint |-> Empty,
         _path |-> path, alias |-> Empty, _baseClass |-> "undefined"], bc)

getFirstPath(path) == split(path)[1]

_setName(t, name) == [t EXCEPT !.name = name]

_isSchema(name) == name \in DOMAIN getSchemasModule.keys

_setBaseSchema(t, schema) == [t EXCEPT !.schema = getSchemasModule.keys[schema]]

_updatePath(t, path) ==
    LET separator == IF t.path = Empty THEN Empty ELSE <<Dot>>
    IN  [t EXCEPT !.path = t.path \o separator \o path]

_trimPath(t, path) == [t EXCEPT !._path = RemoveFrom(t._path, path, 1)]

updatePath(t, path) == _trimPath(_updatePath(t, path), path)

(* mutant: the name is bound before the registry is asked *)
setBase_NameBeforeCheck(t) ==
    LET name == getFirstPath(t._path)
    IN  IF ~_isSchema(name) THEN Throw(_setName(t, name), SchemaNotFound(name))
        ELSE Ok(updatePath(_setBaseSchema(_setName(t, name), name), name))

setBase(t) ==
    LET name == getFirstPath(t._path)
    IN  IF ~_isSchema(name) THEN Throw(t, SchemaNotFound(name))
        ELSE Ok(updatePath(_setBaseSchema(_setName(t, name), name), name))

_isRelationship(t, name) ==
    LET node == SchemaAt(t.schema)
    IN  /\ node.hasRelationships
        /\ \E i \in 1..Len(node.relationships) :
              SchemaAt(node.relationships[i]).name = name

(* mutant: the entity is put in front of the earlier parents *)
_addParent_Unshift(t, entity) == [t EXCEPT !.parents = <<entity>> \o t.parents]

(* mutant: the entity is pushed on the array of the first instance *)
_addParent_Shared(t, entity) == [t EXCEPT !.parents = Append(data[1].parents, entity)]

_addParent(t, entity) == [t EXCEPT !.parents = Append(t.parents, entity)]

(* Array.prototype.find: the first relationship with that name *)
_setRelationshipSchema(t, name) ==
    LET rels == SchemaAt(t.schema).relationships
        hit == {i \in 1..Len(rels) : SchemaAt(rels[i]).name = name}
        first == CHOOSE i \in hit : \A j \in hit : i <= j
    IN  [t EXCEPT !.schema = rels[first]]

_resetId(t) == [t EXCEPT !.id = Empty]

(* mutant: the parent entity is captured after name and schema moved on *)
_setRelationship_ParentAfter(t, name) ==
    LET moved == _setRelationshipSchema(_setName(t, name), name)
        parentEntity == [schema |-> moved.schema, name |-> moved.name, id |-> t.id]
    IN  updatePath(_resetId(_addParent(moved, parentEntity)), name)

_setRelationship(t, name) ==
    LET parentEntity == [schema |-> t.schema, name |-> t.name, id |-> t.id]
    IN  updatePath(_resetId(_setRelationshipSchema(
            _setName(_addParent(t, parentEntity), name), name)), name)

_isId(value) == NumberIsNotNaN(value)

_setId(t, id) == _trimPath([t EXCEPT !.id = id], id)

_isCustomAction(t) ==
    LET action == split(t._path)[1]
        node == SchemaAt(t.schema)
    IN  node.hasActions /\ action \in DOMAIN node.actions

_getCustomAction(t) == SchemaAt(t.schema).actions[split(t._path)[1]]

_isUpdateAction(t) == t.id # Empty

_getDefaultAction(t) ==
    IF _isUpdateAction(t) THEN DEFAULT_ACTIONS.update ELSE DEFAULT_ACTIONS.create

(* mutant: the schema's actions are never looked at *)
_getAction_DefaultOnly(t) == _getDefaultAction(t)

_getAction(t) ==
    IF _isCustomAction(t) THEN _getCustomAction(t) ELSE _getDefaultAction(t)

(* mutant: the matched action segment is trimmed from the remaining path *)
setAction_Consumes(t) ==
    IF _isCustomAction(t)
    THEN _trimPath([t EXCEPT !.action = _getAction(t)], split(t._path)[1])
    ELSE [t EXCEPT !.action = _getAction(t)]

setAction(t) == [t EXCEPT !.action = _getAction(t)]

(* The component factory: the component carries the model descriptor of    *)
(* the schema in focus, when that schema has one.                          *)
getComponent(t) ==
    LET node == SchemaAt(t.schema)
    IN  [bound |-> TRUE, model |-> node.model, modelName |-> node.modelName]

(* this._baseClass.getComponent(this): a TypeError when the constructor    *)
(* found nothing under baseClass, and when it found an inherited member,   *)
(* which has no getComponent                                               *)
setComponent(t) ==
    IF t._baseClass = "undefined"
    THEN Throw(t, TypeErrorReading("undefined", "getComponent"))
    ELSE IF t._baseClass \in ObjectPrototype
    THEN Throw(t, TypeErrorNotAFunction("this._baseClass.getComponent"))
    ELSE Ok([t EXCEPT !.component = getComponent(t)])

getEndpoint(t) == replaceAll(t.path, Dot, Slash)

(* what a method that returns a value gives: the value, or the error *)
Return(v) == [value |-> v, thrown |-> NoError]
Raise(e) == [value |-> Empty, thrown |-> e]

(* reading .name of component.model raises a TypeError when the model is   *)
(* undefined or null                                                       *)
getAlias(t) ==
    IF t.component.model # "object"
    THEN Raise(TypeErrorReading(t.component.model, "name"))
    ELSE IF t.component.modelName # Empty THEN Return(t.component.modelName)
    ELSE Return(replaceAll(t.endpoint, Slash, Hyphen))

setAlias(t) ==
    IF getAlias(t).thrown # NoError THEN Throw(t, getAlias(t).thrown)
    ELSE Ok([t EXCEPT !.alias = getAlias(t).value])

setEndpoint(t) == setAlias([t EXCEPT !.endpoint = getEndpoint(t)])

(* mutant: the resolved path is tested instead of the remaining path *)
isValid_ResolvedPath(t) == IF t.path # Empty THEN Throw(t, NotResolved) ELSE Ok(t)

isValid(t) == IF t._path # Empty THEN Throw(t, NotResolved) ELSE Ok(t)

(* setRecord as one call: the loop over arrPath, run to its end or break *)
RECURSIVE setRecordLoop(_, _)
setRecordLoop(t, arr) ==
    IF arr = << >> THEN t
    ELSE IF _isRelationship(t, Head(arr))
         THEN setRecordLoop(_setRelationship(t, Head(arr)), Tail(arr))
    ELSE IF _isId(Head(arr)) THEN setRecordLoop(_setId(t, Head(arr)), Tail(arr))
    ELSE t

setRecord(t) == setRecordLoop(t, split(t._path))

(* ------------------------------- inputs ------------------------------ *)
SeqsOfLen(S, n) == [1..n -> S]
Inputs == {join(s) : s \in UNION {SeqsOfLen(Segs, n) : n \in 1..MaxSegs}}

TypeOK ==
    /\ schemas \in Registries
    /\ \A c \in Ctxs : pc[c] \in {"unused", "none", "new", "base", "record", "recorded",
                                   "action", "component", "endpoint", "done", "failed"}

Init ==
    /\ schemas \in Registries
    /\ \E p \in Inputs : input = [c \in Ctxs |-> IF c = 1 THEN p ELSE Empty]
    /\ \E b \in BaseClassArgs :
          baseClass = [c \in Ctxs |-> IF c = 1 THEN b ELSE "undefined"]
    /\ data = [c \in Ctxs |-> NoObject]
    /\ pc = [c \in Ctxs |-> IF c = 1 THEN "none" ELSE "unused"]
    /\ arrPath = [c \in Ctxs |-> << >>]
    /\ calls = [c \in Ctxs |-> << >>]
    /\ thrown = [c \in Ctxs |-> NoError]
    /\ returned = [c \in Ctxs |-> FALSE]

(* a call of a method that may throw: its outcome r, the position after it *)
Finish(c, r, method, next) ==
    /\ data' = [data EXCEPT ![c] = r.this]
    /\ thrown' = [thrown EXCEPT ![c] = r.thrown]
    /\ pc' = [pc EXCEPT ![c] = IF r.thrown = NoError THEN next ELSE "failed"]
    /\ calls' = [calls EXCEPT ![c] = Append(@, method)]

(* new MantraData({ path, baseClass }) *)
Construct(c) ==
    /\ pc[c] = "none"
    /\ data' = [data EXCEPT ![c] = constructor(input[c], baseClass[c])]
    /\ pc' = [pc EXCEPT ![c] = "new"]
    /\ calls' = [calls EXCEPT ![c] = Append(@, "constructor")]
    /\ UNCHANGED <<schemas, input, baseClass, arrPath, thrown, returned>>

SetBase(c) ==
    /\ pc[c] = "new"
    /\ Finish(c, setBase(data[c]), "setBase", "base")
    /\ UNCHANGED <<schemas, input, baseClass, arrPath, returned>>

(* setRecord: const arrPath = this._path.split('.'), then the loop *)
SetRecordEnter(c) ==
    /\ pc[c] = "base"
    /\ arrPath' = [arrPath EXCEPT ![c] = split(data[c]._path)]
    /\ pc' = [pc EXCEPT ![c] = "record"]
    /\ calls' = [calls EXCEPT ![c] = Append(@, "setRecord")]
    /\ UNCHANGED <<schemas, input, baseClass, data, thrown, returned>>

SetRecordRelationship(c) ==
    /\ pc[c] = "record"
    /\ arrPath[c] # << >>
    /\ _isRelationship(data[c], Head(arrPath[c]))
    /\ data' = [data EXCEPT ![c] = _setRelationship(@, Head(arrPath[c]))]
    /\ arrPath' = [arrPath EXCEPT ![c] = Tail(@)]
    /\ UNCHANGED <<schemas, input, baseClass, pc, calls, thrown, returned>>

(* mutant: the id test comes before the relationship test *)
SetRecordId_BeforeRelationship(c) ==
    /\ pc[c] = "record"
    /\ arrPath[c] # << >>
    /\ _isId(Head(arrPath[c]))
    /\ data' = [data EXCEPT ![c] = _setId(@, Head(arrPath[c]))]
    /\ arrPath' = [arrPath EXCEPT ![c] = Tail(@)]
    /\ UNCHANGED <<schemas, input, baseClass, pc, calls, thrown, returned>>

SetRecordId(c) ==
    /\ pc[c] = "record"
    /\ arrPath[c] # << >>
    /\ ~_isRelationship(data[c], Head(arrPath[c]))
    /\ _isId(Head(arrPath[c]))
    /\ data' = [data EXCEPT ![c] = _setId(@, Head(arrPath[c]))]
    /\ arrPath' = [arrPath EXCEPT ![c] = Tail(@)]
    /\ UNCHANGED <<schemas, input, baseClass, pc, calls, thrown, returned>>

(* break: the segment is neither; arrPath keeps the segments not visited *)
SetRecordBreak(c) ==
    /\ pc[c] = "record"
    /\ arrPath[c] # << >>
    /\ ~_isRelationship(data[c], Head(arrPath[c]))
    /\ ~_isId(Head(arrPath[c]))
    /\ pc' = [pc EXCEPT ![c] = "recorded"]
    /\ UNCHANGED <<schemas, input, baseClass, data, arrPath, calls, thrown, returned>>

SetRecordEnd(c) ==
    /\ pc[c] = "record"
    /\ arrPath[c] = << >>
    /\ pc' = [pc EXCEPT ![c] = "recorded"]
    /\ UNCHANGED <<schemas, input, baseClass, data, arrPath, calls, thrown, returned>>

SetAction(c) ==
    /\ pc[c] = "recorded"
    /\ Finish(c, Ok(setAction(data[c])), "setAction", "action")
    /\ UNCHANGED <<schemas, input, baseClass, arrPath, returned>>

SetComponent(c) ==
    /\ pc[c] = "action"
    /\ Finish(c, setComponent(data[c]), "setComponent", "component")
    /\ UNCHANGED <<schemas, input, baseClass, arrPath, returned>>

SetEndpoint(c) ==
    /\ pc[c] \in {"action", "component"}
    /\ Finish(c, setEndpoint(data[c]), "setEndpoint", "endpoint")
    /\ UNCHANGED <<schemas, input, baseClass, arrPath, returned>>

IsValid(c) ==
    /\ pc[c] \in {"action", "component", "endpoint"}
    /\ Finish(c, isValid(data[c]), "isValid", "done")
    /\ returned' = [returned EXCEPT ![c] = (isValid(data[c]).thrown = NoError)]
    /\ UNCHANGED <<schemas, input, baseClass, arrPath>>

Next ==
    \E c \in Ctxs :
        \/ Construct(c)
        \/ SetBase(c)
        \/ SetRecordEnter(c)
        \/ SetRecordRelationship(c)
        \/ SetRecordId(c)
        \/ SetRecordBreak(c)
        \/ SetRecordEnd(c)
        \/ SetAction(c)
        \/ SetComponent(c)
        \/ SetEndpoint(c)
        \/ IsValid(c)

Spec == Init /\ [][Next]_vars

(* Two resolutions, each on its own context, against one registry; their   *)
(* calls interleave in any order.                                          *)
PairInputs ==
    {join(<<users, five>>), join(<<users, five, posts, create>>),
     join(<<users, posts, five, posts>>), join(<<widgets, seven>>),
     join(<<posts, five>>), join(<<create>>), join(<<users, Empty, five>>),
     join(<<users, superusers, five>>)}

InitPair ==
    /\ schemas \in Registries
    /\ input \in [Ctxs -> PairInputs]
    /\ baseClass \in [Ctxs -> BaseClassArgs]
    /\ data = [c \in Ctxs |-> NoObject]
    /\ pc = [c \in Ctxs |-> "none"]
    /\ arrPath = [c \in Ctxs |-> << >>]
    /\ calls = [c \in Ctxs |-> << >>]
    /\ thrown = [c \in Ctxs |-> NoError]
    /\ returned = [c \in Ctxs |-> FALSE]

SpecPair == InitPair /\ [][Next]_vars

(* ------------------------------ claims ------------------------------- *)
Called(c, method) == \E i \in 1..Len(calls[c]) : calls[c][i] = method
LastCall(c) == IF calls[c] = << >> THEN "" ELSE calls[c][Len(calls[c])]
Terminal(c) == pc[c] \in {"done", "failed"}

(* The first relationship of node that is named s, 0 when there is none. *)
RelationshipNamed(reg, node, s) ==
    LET rels == IF reg.nodes[node].hasRelationships
                THEN reg.nodes[node].relationships ELSE << >>
        hit == {i \in 1..Len(rels) : reg.nodes[rels[i]].name = s}
    IN  IF hit = {} THEN 0 ELSE rels[CHOOSE i \in hit : \A j \in hit : i <= j]

(* How a path reads against the relationship graph, from node on: "name"   *)
(* when its last segment is an entity name, "id" when it is an id that     *)
(* follows an entity name, "bad" when some segment is neither.             *)
RECURSIVE ChainKind(_, _, _, _)
ChainKind(reg, segs, node, last) ==
    IF segs = << >> THEN last
    ELSE IF RelationshipNamed(reg, node, Head(segs)) # 0
         THEN ChainKind(reg, Tail(segs), RelationshipNamed(reg, node, Head(segs)), "name")
    ELSE IF Head(segs) # Empty /\ AllDigits(Head(segs)) /\ last = "name"
         THEN ChainKind(reg, Tail(segs), node, "id")
    ELSE "bad"

(* "name", "id" or "bad" for a whole input: a registered root name, then   *)
(* relationship names and ids that follow the registry's graph.            *)
PathKind(reg, p) ==
    IF split(p)[1] \notin DOMAIN reg.keys THEN "bad"
    ELSE ChainKind(reg, Tail(split(p)), reg.keys[split(p)[1]], "name")

(* C1: for every input made of a registered root name followed by          *)
(* relationship-name and id segments that follow the registry's graph,     *)
(* once setBase and setRecord have run the resolved path equals the input  *)
(* and the remaining path is empty.                                        *)
C1_RoundTrip ==
    \A c \in Ctxs :
        (pc[c] = "recorded" /\ PathKind(schemas, input[c]) # "bad")
            => (data[c].path = input[c] /\ data[c]._path = Empty)

(* The segments of a string; the empty string has none. *)
Segments(s) == IF s = Empty THEN << >> ELSE split(s)

(* C2: in every state after setBase and after each step of setRecord, the  *)
(* segments of the resolved path followed by those of the remaining path   *)
(* are the segments of the input, in order (inputs without empty segment). *)
C2_SegmentsConserved ==
    \A c \in Ctxs :
        (/\ pc[c] \in {"base", "record", "recorded"}
         /\ \A i \in 1..Len(split(input[c])) : split(input[c])[i] # Empty)
            => Segments(data[c].path) \o Segments(data[c]._path) = split(input[c])

(* C3: with users -> posts and posts declaring actions.create, the path    *)
(* "users.5.posts.create" run through setBase, setRecord, setAction and    *)
(* setEndpoint has parents = [{users, "users", "5"}], schema posts,        *)
(* action.name "create" and endpoint "users/5/posts/create".               *)
C3_Scenario ==
    \A c \in Ctxs :
        (/\ schemas = ScenarioRegistry
         /\ input[c] = join(<<users, five, posts, create>>)
         /\ Called(c, "setEndpoint"))
            => /\ data[c].parents = <<[schema |-> 1, name |-> users, id |-> five]>>
               /\ data[c].schema = 2
               /\ data[c].action.name = create
               /\ data[c].endpoint =
                     <<"u", "s", "e", "r", "s", "/", "5", "/", "p", "o", "s", "t", "s",
                       "/", "c", "r", "e", "a", "t", "e">>

(* C4: when the first segment of the input is not a key of the registry,   *)
(* setBase throws the schema-not-found error naming that segment and the   *)
(* context is as the constructor left it.                                  *)
C4_SetBaseFailure ==
    \A c \in Ctxs :
        (Called(c, "setBase") /\ split(input[c])[1] \notin DOMAIN schemas.keys)
            => /\ pc[c] = "failed"
               /\ thrown[c] = SchemaNotFound(split(input[c])[1])
               /\ data[c] = constructor(input[c], baseClass[c])
               /\ LastCall(c) = "setBase"

C4_Witness ==
    \E c \in Ctxs :
        /\ pc[c] = "failed"
        /\ thrown[c] = SchemaNotFound(posts)
        /\ input[c] = join(<<posts, five, users>>)
        /\ data[c]._path = input[c]

(* C5: when the first segment r is registered, setBase binds schema, name  *)
(* and resolved path to r and removes only the leading r and its dot from  *)
(* the remaining path: all later segments stay, unchanged.                 *)
C5_SetBaseRemovesOne ==
    \A c \in Ctxs :
        (pc[c] = "base")
            => /\ data[c].schema = schemas.keys[split(input[c])[1]]
               /\ data[c].name = split(input[c])[1]
               /\ data[c].path = split(input[c])[1]
               /\ data[c]._path = join(Tail(split(input[c])))

(* C6: after setAction, when the first remaining segment is no key of the  *)
(* schema's actions, the action is the built-in update if the id is not    *)
(* empty and the built-in create otherwise; so a path that follows the     *)
(* graph and ends in an id has update, one that ends in an entity name     *)
(* has create.                                                             *)
C6_DefaultAction ==
    \A c \in Ctxs :
        (pc[c] = "action" /\ ~_isCustomAction(data[c]))
            => /\ data[c].action = IF data[c].id # Empty THEN DEFAULT_ACTIONS.update
                                   ELSE DEFAULT_ACTIONS.create
               /\ PathKind(schemas, input[c]) = "id"
                     => data[c].action = DEFAULT_ACTIONS.update
               /\ PathKind(schemas, input[c]) = "name"
                     => data[c].action = DEFAULT_ACTIONS.create

(* C7: after setEndpoint the alias is the component's model name when the  *)
(* component has a model with a name; in every other case setEndpoint      *)
(* completes and the alias is the endpoint with slashes made hyphens.      *)
C7_Alias ==
    \A c \in Ctxs :
        (LastCall(c) = "setEndpoint")
            => IF data[c].component.model = "object" /\ data[c].component.modelName # Empty
               THEN pc[c] = "endpoint" /\ data[c].alias = data[c].component.modelName
               ELSE pc[c] = "endpoint"
                    /\ data[c].alias = replaceAll(data[c].endpoint, Slash, Hyphen)

(* C8: a call of isValid throws the not-completely-resolved error exactly  *)
(* when the remaining path is not empty and returns true otherwise, and    *)
(* leaves every field of the context as it was.                            *)
C8_IsValid ==
    [][\A c \in Ctxs :
          (calls'[c] = Append(calls[c], "isValid"))
              => /\ data'[c] = data[c]
                 /\ IF data[c]._path # Empty
                    THEN thrown'[c] = NotResolved /\ ~returned'[c] /\ pc'[c] = "failed"
                    ELSE thrown'[c] = NoError /\ returned'[c] /\ pc'[c] = "done"]_vars

C8_Witness ==
    \E c \in Ctxs :
        /\ LastCall(c) = "isValid"
        /\ thrown[c] = NotResolved
        /\ data[c]._path = create
        /\ data[c].parents # << >>
        /\ data[c].endpoint # Empty

(* C9, as stated: two resolutions of the same input string against the     *)
(* same registry, each on its own context and ended by the same calls,     *)
(* have the same endpoint, alias, parents and action, and the same error   *)
(* or return value.                                                        *)
C9_Deterministic ==
    \A c1 \in Ctxs, c2 \in Ctxs :
        (/\ input[c1] = input[c2]
         /\ calls[c1] = calls[c2]
         /\ Terminal(c1) /\ Terminal(c2))
            => /\ data[c1].endpoint = data[c2].endpoint
               /\ data[c1].alias = data[c2].alias
               /\ data[c1].parents = data[c2].parents
               /\ data[c1].action = data[c2].action
               /\ thrown[c1] = thrown[c2]
               /\ returned[c1] = returned[c2]

(* C9, amended: the same, for two resolutions whose contexts were also     *)
(* constructed with the same baseClass.                                    *)
C9_DeterministicSameBaseClass ==
    \A c1 \in Ctxs, c2 \in Ctxs :
        (/\ input[c1] = input[c2]
         /\ baseClass[c1] = baseClass[c2]
         /\ calls[c1] = calls[c2]
         /\ Terminal(c1) /\ Terminal(c2))
            => /\ data[c1].endpoint = data[c2].endpoint
               /\ data[c1].alias = data[c2].alias
               /\ data[c1].parents = data[c2].parents
               /\ data[c1].action = data[c2].action
               /\ thrown[c1] = thrown[c2]
               /\ returned[c1] = returned[c2]

C9_Witness ==
    \E c1 \in Ctxs, c2 \in Ctxs :
        /\ c1 # c2
        /\ input[c1] = input[c2]
        /\ baseClass[c1] = baseClass[c2]
        /\ calls[c1] = calls[c2]
        /\ pc[c1] = "failed" /\ pc[c2] = "failed"
        /\ thrown[c1] = NotResolved
        /\ data[c1].parents # << >>
        /\ data[c1].endpoint # Empty

(* Whether node b is reached from node a by one or more relationships. *)
RECURSIVE ReachedIn(_, _, _, _)
ReachedIn(reg, a, b, n) ==
    /\ n > 0
    /\ reg.nodes[a].hasRelationships
    /\ \E i \in 1..Len(reg.nodes[a].relationships) :
          \/ reg.nodes[a].relationships[i] = b
          \/ ReachedIn(reg, reg.nodes[a].relationships[i], b, n - 1)

Acyclic(reg) == \A a \in 1..Len(reg.nodes) : ~ReachedIn(reg, a, a, Len(reg.nodes))

ParentIsCurrent(c) ==
    \E i \in 1..Len(data[c].parents) :
        /\ data[c].parents[i].schema = data[c].schema
        /\ data[c].parents[i].name = data[c].name

(* C10, as stated: in every state during setBase and setRecord, for every  *)
(* relationship graph, no entry of parents has both the schema node and    *)
(* the name that are current.                                              *)
C10_ParentsNeverCurrent ==
    \A c \in Ctxs : pc[c] \in {"base", "record", "recorded"} => ~ParentIsCurrent(c)

(* C10, amended: the same, for every registry whose relationship graph has *)
(* no cycle (no schema node is reached from itself).                       *)
C10_ParentsNeverCurrentAcyclic ==
    \A c \in Ctxs :
        (Acyclic(schemas) /\ pc[c] \in {"base", "record", "recorded"})
            => ~ParentIsCurrent(c)

C10_Witness ==
    \E c \in Ctxs :
        /\ Acyclic(schemas)
        /\ pc[c] = "record"
        /\ Len(data[c].parents) = 2
        /\ data[c].schema = 4

(* Inputs with segments that hold the root name or that are no id. *)
fiveusers == <<"5", "u", "s", "e", "r", "s">>
null == <<"n", "u", "l", "l">>
hex == <<"0", "x", "1", "f">>
EdgeSegs == {users, posts, five, seven, fiveusers, null, hex}
MaxEdgeSegs == 3
EdgeInputs == {join(s) : s \in UNION {SeqsOfLen(EdgeSegs, n) : n \in 1..MaxEdgeSegs}}

InitEdge ==
    /\ schemas \in Registries
    /\ \E p \in EdgeInputs : input = [c \in Ctxs |-> IF c = 1 THEN p ELSE Empty]
    /\ \E b \in BaseClassArgs :
          baseClass = [c \in Ctxs |-> IF c = 1 THEN b ELSE "undefined"]
    /\ data = [c \in Ctxs |-> NoObject]
    /\ pc = [c \in Ctxs |-> IF c = 1 THEN "none" ELSE "unused"]
    /\ arrPath = [c \in Ctxs |-> << >>]
    /\ calls = [c \in Ctxs |-> << >>]
    /\ thrown = [c \in Ctxs |-> NoError]
    /\ returned = [c \in Ctxs |-> FALSE]

SpecEdge == InitEdge /\ [][Next]_vars

InputSegments(c) == {split(input[c])[i] : i \in 1..Len(split(input[c]))}

IdOfInput(c, v) == v = Empty \/ (v \in InputSegments(c) /\ _isId(v))

(* C11: in every state of a resolution the current id is empty or is a     *)
(* segment of the input that passes the id predicate, and so is the id of  *)
(* every ParentLink.                                                       *)
C11_IdIsInputSegment ==
    \A c \in Ctxs :
        /\ IdOfInput(c, data[c].id)
        /\ \A i \in 1..Len(data[c].parents) : IdOfInput(c, data[c].parents[i].id)

(* One method called on a context by itself. *)
Call(t, method) ==
    CASE method = "setBase" -> setBase(t)
      [] method = "setRecord" -> Ok(setRecord(t))
      [] method = "setAction" -> Ok(setAction(t))
      [] method = "setComponent" -> setComponent(t)
      [] method = "setEndpoint" -> setEndpoint(t)
      [] method = "isValid" -> isValid(t)

RECURSIVE RunFrom(_, _)
RunFrom(r, methods) ==
    IF methods = << >> THEN r ELSE RunFrom(Call(r.this, Head(methods)), Tail(methods))

(* The resolution of context c run alone: its calls, one after the other, *)
(* on a fresh context for its input.                                       *)
RunAlone(c) == RunFrom(Ok(constructor(input[c], baseClass[c])), Tail(calls[c]))

SameAsAlone ==
    \A c \in Ctxs :
        (calls[c] # << >> /\ pc[c] # "record")
            => /\ data[c] = RunAlone(c).this
               /\ thrown[c] = RunAlone(c).thrown

(* C12: no step writes the registry, and with the calls of two resolutions *)
(* interleaved in any order each context holds, after each of its calls,   *)
(* the resolved path, id, parents, action and endpoint (every field) it    *)
(* has when its calls run alone.                                           *)
C12_Interleaving == []SameAsAlone /\ [][schemas' = schemas]_vars

C12_Witness ==
    /\ pc[1] = "done" /\ Terminal(2)
    /\ input[1] = join(<<users, five>>)
    /\ input[2] = join(<<users, posts, five, posts>>)
    /\ data[1].id = five /\ data[1].parents = << >>
    /\ Len(data[2].parents) = 2

(* A step of setRecord's loop on context c that crosses a relationship. *)
RelationshipStep(c) ==
    /\ pc[c] = "record" /\ arrPath[c] # << >>
    /\ arrPath'[c] = Tail(arrPath[c])
    /\ _isRelationship(data[c], Head(arrPath[c]))

(* parents is in root-to-leaf order and ends at the parent of the schema   *)
(* in focus.                                                               *)
RootToLeaf(c) ==
    LET ps == data[c].parents
        IsRelationshipOf(child, parent) ==
            /\ SchemaAt(parent).hasRelationships
            /\ \E k \in 1..Len(SchemaAt(parent).relationships) :
                  SchemaAt(parent).relationships[k] = child
    IN  ps # << >> =>
            /\ ps[1].schema = schemas.keys[split(input[c])[1]]
            /\ \A i \in 2..Len(ps) : IsRelationshipOf(ps[i].schema, ps[i - 1].schema)
            /\ IsRelationshipOf(data[c].schema, ps[Len(ps)].schema)

(* C13: a step of setRecord on a relationship name appends one ParentLink  *)
(* with the schema, name and id current before the step, keeps the earlier *)
(* entries, makes the matched relationship the schema, the segment the     *)
(* name and the id empty; so parents is in root-to-leaf order.             *)
C13_RelationshipStep ==
    [][\A c \in Ctxs :
          /\ RelationshipStep(c) =>
                /\ data'[c].parents =
                      Append(data[c].parents,
                             [schema |-> data[c].schema, name |-> data[c].name,
                              id |-> data[c].id])
                /\ data'[c].schema =
                      RelationshipNamed(schemas, data[c].schema, Head(arrPath[c]))
                /\ data'[c].name = Head(arrPath[c])
                /\ data'[c].id = Empty
          /\ RootToLeaf(c)']_vars

C13_Witness ==
    \E c \in Ctxs :
        /\ pc[c] = "recorded"
        /\ data[c].parents = <<[schema |-> 1, name |-> users, id |-> five],
                                [schema |-> 2, name |-> posts, id |-> Empty]>>
        /\ data[c].schema = 4
        /\ data[c].id = Empty

(* setRecord on context c ended by break: arrPath holds the segment it     *)
(* stopped at and the segments after it.                                   *)
Stopped(c) == pc[c] = "recorded" /\ arrPath[c] # << >>

(* C14: when chain resolution stops at a segment that is neither a         *)
(* relationship name nor an id, that segment and every segment after it    *)
(* are still in the remaining path, and the context is what the segments   *)
(* before it made it: none of the later segments changed schema, name, id, *)
(* parents or resolved path.                                               *)
C14_StopKeepsRest ==
    \A c \in Ctxs :
        Stopped(c) =>
            LET all == split(setBase(constructor(input[c], baseClass[c])).this._path)
                seen == SubSeq(all, 1, Len(all) - Len(arrPath[c]))
                before == setRecordLoop(
                              setBase(constructor(input[c], baseClass[c])).this, seen)
            IN  /\ data[c]._path = join(arrPath[c])
                /\ data[c].schema = before.schema
                /\ data[c].name = before.name
                /\ data[c].id = before.id
                /\ data[c].parents = before.parents
                /\ data[c].path = before.path

(* A step of setRecord's loop on context c: the head of arrPath is visited. *)
LoopStep(c) ==
    /\ pc[c] = "record" /\ arrPath[c] # << >>
    /\ (arrPath'[c] = Tail(arrPath[c]) \/ pc'[c] = "recorded")

(* C15: a segment that names a relationship of the current schema and is   *)
(* also a valid id is crossed as a relationship (a ParentLink is pushed,   *)
(* the id becomes empty); a segment that is no number, such as "null", and *)
(* no relationship is never taken as an id.                                *)
C15_RelationshipBeforeId ==
    [][\A c \in Ctxs :
          LoopStep(c) =>
              LET seg == Head(arrPath[c])
              IN  /\ (_isRelationship(data[c], seg) /\ NumberIsNotNaN(seg))
                        => /\ Len(data'[c].parents) = Len(data[c].parents) + 1
                           /\ data'[c].schema =
                                 RelationshipNamed(schemas, data[c].schema, seg)
                           /\ data'[c].id = Empty
                  /\ (~_isRelationship(data[c], seg) /\ ~NumberIsNotNaN(seg))
                        => /\ data'[c] = data[c]
                           /\ pc'[c] = "recorded"
                  /\ ~NumberIsNotNaN(null)]_vars

C15_Witness ==
    \E c \in Ctxs :
        /\ input[c] = join(<<users, posts, five>>)
        /\ pc[c] = "recorded"
        /\ arrPath[c] = << >>
        /\ data[c].schema = 4
        /\ Len(data[c].parents) = 2
        /\ data[c].id = Empty

(* C16: a call of setAction, when the current schema defines actions and   *)
(* the first segment of the remaining path is one of their keys, binds     *)
(* action to the schema's descriptor for that segment; in every case it    *)
(* changes no field but action, so the matched segment stays in the        *)
(* remaining path.                                                         *)
C16_SetActionFrame ==
    [][\A c \in Ctxs :
          (calls'[c] = Append(calls[c], "setAction")) =>
              LET seg == split(data[c]._path)[1]
                  node == schemas.nodes[data[c].schema]
              IN  /\ (node.hasActions /\ seg \in DOMAIN node.actions)
                        => data'[c].action = node.actions[seg]
                  /\ data'[c] = [data[c] EXCEPT !.action = data'[c].action]
                  /\ thrown'[c] = NoError]_vars

C16_Witness ==
    \E c \in Ctxs :
        /\ LastCall(c) = "setAction"
        /\ data[c].action = [ref |-> "schema", name |-> create, needFetch |-> TRUE]
        /\ data[c]._path = join(<<create, five>>)
        /\ data[c].schema = 2
        /\ data[c].parents # << >>

(* Whether every segment of segs, read from node on, is a relationship     *)
(* name of the schema then in focus or a valid id.                         *)
RECURSIVE AllConsumable(_, _, _)
AllConsumable(reg, segs, node) ==
    IF segs = << >> THEN TRUE
    ELSE IF RelationshipNamed(reg, node, Head(segs)) # 0
         THEN AllConsumable(reg, Tail(segs), RelationshipNamed(reg, node, Head(segs)))
    ELSE NumberIsNotNaN(Head(segs)) /\ AllConsumable(reg, Tail(segs), node)

(* C17: if isValid returns true after setBase, setRecord and setAction,    *)
(* every segment of the input is the root name, a relationship name of the *)
(* schema in focus when it is read, or an id: no input with a segment that *)
(* is none of these passes validation.                                     *)
C17_ValidationSound ==
    \A c \in Ctxs :
        returned[c] =>
            /\ split(input[c])[1] \in DOMAIN schemas.keys
            /\ AllConsumable(schemas, Tail(split(input[c])),
                             schemas.keys[split(input[c])[1]])

(* C18: with non-empty action names, a resolution to which setAction bound *)
(* an action of the schema fails the isValid call that follows with the    *)
(* not-completely-resolved error: none both returns true from isValid and  *)
(* carries an action taken from the schema's actions.                      *)
C18_CustomActionNeverValid ==
    \A c \in Ctxs :
        /\ (LastCall(c) = "isValid" /\ data[c].action.ref = "schema")
              => (pc[c] = "failed" /\ thrown[c] = NotResolved /\ ~returned[c])
        /\ returned[c] => data[c].action \in {DEFAULT_ACTIONS.create, DEFAULT_ACTIONS.update}

C18_Witness ==
    \E c \in Ctxs :
        /\ LastCall(c) = "isValid"
        /\ data[c].action = [ref |-> "schema", name |-> create, needFetch |-> TRUE]
        /\ thrown[c] = NotResolved
        /\ data[c]._path = create
        /\ data[c].id = Empty
====
